---- MODULE Spec2Model ----
(***************************************************************************)
(* CourtCaptain (src/main.py): a Flask application over two SQLite tables, *)
(* votes(name PRIMARY KEY, day, court, ts) and availability(day, court,    *)
(* slot).  The model keeps the two tables, the import request in flight,   *)
(* the add-slot requests in flight, the configured booking URL and the     *)
(* last HTTP response, and has one action per request handler.             *)
(*                                                                         *)
(* Text is modelled as a sequence of one-character strings, so that        *)
(* str.strip(), str.lower() and the substring test are computed character  *)
(* by character.                                                           *)
(***************************************************************************)
EXTENDS Integers, Sequences, FiniteSets, Bags, TLC

VARIABLES votes, avail, imp, last, adds, BOOKING_URL

vars == <<votes, avail, imp, last, adds, BOOKING_URL>>

(***************************************************************************)
(* Text                                                                    *)
(***************************************************************************)
UpperChars ==
    <<"A","B","C","D","E","F","G","H","I","J","K","L","M",
      "N","O","P","Q","R","S","T","U","V","W","X","Y","Z">>

LowerChars ==
    <<"a","b","c","d","e","f","g","h","i","j","k","l","m",
      "n","o","p","q","r","s","t","u","v","w","x","y","z">>

Digits == <<"0","1","2","3","4","5","6","7","8","9">>

\* The characters the model uses, in code-point order (sorted() compares
\* strings by code point).
CodePoints == <<"\t", "\n", " ", "-">> \o Digits \o UpperChars \o LowerChars

Whitespace == {" ", "\t", "\n"}

Ord(c) == CHOOSE i \in 1..Len(CodePoints) : CodePoints[i] = c

LowerChar(c) ==
    IF \E i \in 1..Len(UpperChars) : UpperChars[i] = c
    THEN LowerChars[CHOOSE i \in 1..Len(UpperChars) : UpperChars[i] = c]
    ELSE c

\* str.lower()
Lower(s) == [i \in 1..Len(s) |-> LowerChar(s[i])]

RECURSIVE LStrip(_)
LStrip(s) ==
    IF s # <<>> /\ Head(s) \in Whitespace THEN LStrip(Tail(s)) ELSE s

RECURSIVE RStrip(_)
RStrip(s) ==
    IF s # <<>> /\ s[Len(s)] \in Whitespace
    THEN RStrip(SubSeq(s, 1, Len(s) - 1))
    ELSE s

\* str.strip()
Strip(s) == RStrip(LStrip(s))

\* needle in hay (substring test)
Contains(hay, needle) ==
    \E i \in 0..(Len(hay) - Len(needle)) :
        SubSeq(hay, i + 1, i + Len(needle)) = needle

\* s < t for strings: lexicographic by code point
RECURSIVE StrLess(_, _)
StrLess(s, t) ==
    IF t = <<>> THEN FALSE
    ELSE IF s = <<>> THEN TRUE
    ELSE IF Ord(Head(s)) # Ord(Head(t)) THEN Ord(Head(s)) < Ord(Head(t))
    ELSE StrLess(Tail(s), Tail(t))

\* x in list / list.index(x), for a list given as a sequence
InList(x, list) == \E i \in 1..Len(list) : list[i] = x

IndexOf(x, list) ==
    (CHOOSE i \in 1..Len(list) :
        list[i] = x /\ \A j \in 1..(i - 1) : list[j] # x) - 1

Range(seq) == {seq[i] : i \in 1..Len(seq)}

(***************************************************************************)
(* Configuration                                                           *)
(***************************************************************************)
CourtN(n) == <<"C","o","u","r","t"," ",n>>

OutdoorN(n) == <<"O","u","t","d","o","o","r"," ",n>>

Other == <<"O","t","h","e","r">>

Saturday == <<"S","a","t","u","r","d","a","y">>

Sunday == <<"S","u","n","d","a","y">>

PREFERRED_COURTS == <<CourtN("1"), CourtN("2"), CourtN("3"), CourtN("4")>>

ALL_COURTS ==
    PREFERRED_COURTS \o
    <<CourtN("5"), CourtN("6"), CourtN("7"), OutdoorN("A"), OutdoorN("B"), Other>>

DAYS == <<Saturday, Sunday>>

\* the default of os.environ.get("RESET_PIN", "1234")
RESET_PIN == <<"1","2","3","4">>

\* the default of os.environ.get("BOOKING_URL", ...)
DefaultBookingUrl ==
    <<"h","t","t","p","s",":","/","/","w","a","l","m","a",
      "r","t",".","c","l","u","b","a","u","t","o","m","a",
      "t","i","o","n",".","c","o","m","/","e","v","e","n",
      "t","/","r","e","s","e","r","v","e","-","c","o","u",
      "r","t","-","n","e","w">>

\* the 100 of pref_rank
NonPreferredBase == 100

\* the 4 of booking_possible
QuorumSize == 4

(***************************************************************************)
(* Helpers                                                                 *)
(***************************************************************************)
pref_rank(court) ==
    IF InList(court, PREFERRED_COURTS)
    THEN IndexOf(court, PREFERRED_COURTS)
    ELSE NonPreferredBase + IndexOf(court, ALL_COURTS)

\* day_rank with the day misspelt: every day ranks alike
day_rank_Misspelt(day) == IF day = Lower(Saturday) THEN 0 ELSE 1

\* day_rank with the two ranks exchanged
day_rank_Reversed(day) == IF day = Saturday THEN 1 ELSE 0

day_rank(day) == IF day = Saturday THEN 0 ELSE 1

\* Python's None.  It is a one-element sequence whose element is no character,
\* so that it differs from every text and can be compared with one.
None == <<"None">>

\* x or ""
OrEmpty(x) == IF x = None THEN <<>> ELSE x

\* the buckets dict of tally_with_names, in insertion order: the place of
\* key, or 0 when key is not in it
BucketAt(buckets, key) ==
    IF \E i \in 1..Len(buckets) : buckets[i].key = key
    THEN CHOOSE i \in 1..Len(buckets) : buckets[i].key = key
    ELSE 0

\* the loop body without lower(): names are counted as they are spelt
TallyRow_NoLower(acc, r) ==
    LET nm == Strip(OrEmpty(r.name))
        key == <<r.day, r.court>>
        at == BucketAt(acc.buckets, key)
    IN  IF nm = <<>> THEN acc
        ELSE [unique_players |-> acc.unique_players \cup {nm},
              buckets |->
                IF at = 0
                THEN Append(acc.buckets, [key |-> key, votes |-> 1, names |-> <<nm>>])
                ELSE [acc.buckets EXCEPT ![at].votes = @ + 1,
                                         ![at].names = Append(@, nm)]]

\* the body of the loop over rows
TallyRow(acc, r) ==
    LET nm == Strip(OrEmpty(r.name))
        key == <<r.day, r.court>>
        at == BucketAt(acc.buckets, key)
    IN  IF nm = <<>> THEN acc
        ELSE [unique_players |-> acc.unique_players \cup {Lower(nm)},
              buckets |->
                IF at = 0
                THEN Append(acc.buckets, [key |-> key, votes |-> 1, names |-> <<nm>>])
                ELSE [acc.buckets EXCEPT ![at].votes = @ + 1,
                                         ![at].names = Append(@, nm)]]

RECURSIVE TallyRows(_)
TallyRows(rows) ==
    IF rows = <<>>
    THEN [unique_players |-> {}, buckets |-> <<>>]
    ELSE TallyRow(TallyRows(SubSeq(rows, 1, Len(rows) - 1)), rows[Len(rows)])

\* the sort key with the day ahead of the court
SortKey_DayFirst(b) == <<0 - b.votes, day_rank(b.key[1]), pref_rank(b.key[2])>>

\* the key of sorted(buckets.items(), key=...)
SortKey(b) == <<0 - b.votes, pref_rank(b.key[2]), day_rank(b.key[1])>>

\* tuple comparison of two sort keys
KeyLess(a, b) ==
    \/ a[1] < b[1]
    \/ a[1] = b[1] /\ a[2] < b[2]
    \/ a[1] = b[1] /\ a[2] = b[2] /\ a[3] < b[3]

\* sorted() is stable: an element goes after every element whose key is
\* not greater than its own
InsertByKey(sorted, b) ==
    LET after == {i \in 1..Len(sorted) : ~KeyLess(SortKey(b), SortKey(sorted[i]))}
        n == IF after = {} THEN 0 ELSE CHOOSE i \in after : \A j \in after : j <= i
    IN  SubSeq(sorted, 1, n) \o <<b>> \o SubSeq(sorted, n + 1, Len(sorted))

RECURSIVE SortedByKey(_)
SortedByKey(buckets) ==
    IF buckets = <<>> THEN <<>>
    ELSE InsertByKey(SortedByKey(SubSeq(buckets, 1, Len(buckets) - 1)),
                     buckets[Len(buckets)])

InsertName(sorted, nm) ==
    LET after == {i \in 1..Len(sorted) : ~StrLess(nm, sorted[i])}
        n == IF after = {} THEN 0 ELSE CHOOSE i \in after : \A j \in after : j <= i
    IN  SubSeq(sorted, 1, n) \o <<nm>> \o SubSeq(sorted, n + 1, Len(sorted))

\* sorted(info["names"])
RECURSIVE SortedNames(_)
SortedNames(names) ==
    IF names = <<>> THEN <<>>
    ELSE InsertName(SortedNames(SubSeq(names, 1, Len(names) - 1)), names[Len(names)])

CountEntry(b) ==
    [day |-> b.key[1], court |-> b.key[2], votes |-> b.votes,
     names |-> SortedNames(b.names)]

\* top = None, written as an entry of no day, no court and no votes
NoChoice == [day |-> None, court |-> None, votes |-> 0, names |-> <<>>]

\* the quorum test with > for >=
BookingPossible_Strict(n) == n > QuorumSize

\* len(unique_players) >= 4
BookingPossible(n) == n >= QuorumSize

\* tally_with_names(), on the rows SELECT name, day, court FROM votes returned
tally_with_names(rows) ==
    LET acc == TallyRows(rows)
        ranked == SortedByKey(acc.buckets)
    IN  [total_players |-> Cardinality(acc.unique_players),
         counts |-> [i \in 1..Len(ranked) |-> CountEntry(ranked[i])],
         top_choice |-> IF ranked # <<>> THEN CountEntry(ranked[1]) ELSE NoChoice,
         booking_possible |-> BookingPossible(Cardinality(acc.unique_players))]

(***************************************************************************)
(* The store                                                               *)
(***************************************************************************)
\* the statement without its ON CONFLICT clause, on a table without the key
Upsert_AlwaysInsert(rows, name, day, court) ==
    Append(rows, [name |-> name, day |-> day, court |-> court])

\* INSERT INTO votes ... ON CONFLICT(name) DO UPDATE SET day, court, ts.
\* The primary key compares names byte by byte.  The ts column is written
\* and never read, and is left out.
Upsert(rows, name, day, court) ==
    IF \E i \in 1..Len(rows) : rows[i].name = name
    THEN LET i == CHOOSE k \in 1..Len(rows) : rows[k].name = name
         IN  [rows EXCEPT ![i] = [name |-> name, day |-> day, court |-> court]]
    ELSE Append(rows, [name |-> name, day |-> day, court |-> court])

\* which of the two the upsert statement did
UpsertDid(rows, name) ==
    IF \E i \in 1..Len(rows) : rows[i].name = name THEN "updated" ELSE "inserted"

\* DELETE FROM availability WHERE day=?
DeleteDay(table, day) ==
    LET keep == {t \in BagToSet(table) : t[1] # day}
    IN  [t \in keep |-> table[t]]

\* INSERT INTO availability(day, court, slot) VALUES(?,?,?)
InsertSlot(table, day, court, slot) == table (+) SetToBag({<<day, court, slot>>})

\* the least string of a non-empty set
MinStr(S) == CHOOSE s \in S : \A t \in S : ~StrLess(t, s)

RECURSIVE SortedSet(_)
SortedSet(S) ==
    IF S = {} THEN <<>> ELSE <<MinStr(S)>> \o SortedSet(S \ {MinStr(S)})

\* get_availability_times(): per day and court the distinct slots, sorted
get_availability_times(table) ==
    [d \in Range(DAYS) |->
        [c \in Range(ALL_COURTS) |->
            SortedSet({t[3] : t \in {u \in BagToSet(table) : u[1] = d /\ u[2] = c}})]]

(***************************************************************************)
(* Responses                                                               *)
(***************************************************************************)
\* get_availability_times() of an empty table, for one day
NoSlots == [c \in Range(ALL_COURTS) |-> <<>>]

\* The last response sent: the handler, the status code, the redirect target
\* (location names a route of the application, url is the text of a target
\* outside it), the flashed message, the JSON body (ok, error, imported,
\* courts) and the availability and the tally a page shows.  did names what
\* the handler's SQL statement did to the store.
Response(handler, code, location, flash, did) ==
    [handler |-> handler, code |-> code, location |-> location, url |-> <<>>,
     flash |-> flash, did |-> did,
     ok |-> FALSE, error |-> "", imported |-> 0, courts |-> 0,
     data |-> [d \in Range(DAYS) |-> NoSlots],
     summary |-> tally_with_names(<<>>)]

Redirect(handler, location, flash, did) ==
    Response(handler, 302, location, flash, did)

\* jsonify(ok=False, error=...), code
JsonError(handler, code, error) ==
    [Response(handler, code, "", "", "none") EXCEPT !.error = error]

NoResponse == Response("", 0, "", "", "none")

\* no import request in flight
Idle == [pc |-> "idle", day |-> None, clean |-> <<>>, before |-> NoSlots,
         txn |-> EmptyBag, todo |-> <<>>]

\* An import holds SQLite's write lock from its DELETE to its commit; the
\* other writers wait for it.
WriteLocked == imp.pc = "txn"

(***************************************************************************)
(* Votes                                                                   *)
(***************************************************************************)
\* the validation without its name test
VoteRejected_NoNameTest(name, day, court) ==
    ~InList(day, DAYS) \/ ~InList(court, ALL_COURTS)

\* the validation without its court test
VoteRejected_NoCourtTest(name, day, court) ==
    name = <<>> \/ ~InList(day, DAYS)

\* if not name or day not in DAYS or court not in ALL_COURTS
VoteRejected(name, day, court) ==
    name = <<>> \/ ~InList(day, DAYS) \/ ~InList(court, ALL_COURTS)

\* home(), POST /.  A valid form is written by one upsert statement, so two
\* submissions take effect one after the other.  While an import holds the
\* write lock the statement waits (the busy timeout is not modelled).
HomePost(form_name, form_day, form_court) ==
    LET name == Strip(OrEmpty(form_name))
        day == form_day
        court == form_court
    IN  IF VoteRejected(name, day, court)
        THEN /\ last' = Redirect("home", "/",
                    "Please enter your name, a valid day, and a court.", "none")
             /\ UNCHANGED <<adds, BOOKING_URL, votes, avail, imp>>
        ELSE /\ ~WriteLocked
             /\ votes' = Upsert(votes, name, day, court)
             /\ last' = Redirect("home", "/results", "Vote submitted. Thanks!",
                                 UpsertDid(votes, name))
             /\ UNCHANGED <<adds, BOOKING_URL, avail, imp>>

\* results(), GET /results: the page shows the tally and the availability
\* (and the weather, which is fetched from outside and is no state)
Results ==
    /\ last' = [Response("results", 200, "", "", "none")
                    EXCEPT !.summary = tally_with_names(votes),
                           !.data = get_availability_times(avail)]
    /\ UNCHANGED <<adds, BOOKING_URL, votes, avail, imp>>

\* the PIN test skipped when no PIN is submitted
PinRejected_MissingPasses(form_pin) ==
    form_pin # None /\ form_pin # RESET_PIN

\* request.form.get("pin","") != RESET_PIN
PinRejected(form_pin) == (IF form_pin = None THEN <<>> ELSE form_pin) # RESET_PIN

\* confirm_reset(), POST /confirm-reset
ConfirmReset(form_pin) ==
    IF PinRejected(form_pin)
    THEN /\ last' = Redirect("confirm_reset", "/", "Invalid PIN.", "none")
         /\ UNCHANGED <<adds, BOOKING_URL, votes, avail, imp>>
    ELSE /\ ~WriteLocked
         /\ votes' = <<>>
         /\ last' = Redirect("confirm_reset", "/", "All votes cleared. Fresh week!",
                             "deleted")
         /\ UNCHANGED <<adds, BOOKING_URL, avail, imp>>

(***************************************************************************)
(* Availability                                                            *)
(***************************************************************************)
\* admin_availability(), GET /admin/availability: the page shows
\* get_availability_times()
AdminAvailability ==
    /\ last' = [Response("admin_availability", 200, "", "", "none")
                    EXCEPT !.data = get_availability_times(avail)]
    /\ UNCHANGED <<adds, BOOKING_URL, votes, avail, imp>>

\* admin_availability_post(), POST /admin/availability, run without another
\* request between its SELECT and its INSERT
AdminAvailabilityPost(form_day, form_court, form_slot) ==
    LET day == Strip(OrEmpty(form_day))
        court == Strip(OrEmpty(form_court))
        slot == Strip(OrEmpty(form_slot))
        exists == <<day, court, slot>> \in BagToSet(avail)
    IN  IF ~InList(day, DAYS) \/ ~InList(court, ALL_COURTS) \/ slot = <<>>
        THEN /\ last' = Redirect("admin_availability_post", "/admin/availability",
                    "Please choose a valid day, court, and slot.", "none")
             /\ UNCHANGED <<adds, BOOKING_URL, votes, avail, imp>>
        ELSE /\ ~exists => ~WriteLocked
             /\ avail' = IF exists THEN avail ELSE InsertSlot(avail, day, court, slot)
             /\ last' = Redirect("admin_availability_post", "/admin/availability",
                                 "Time slot added.",
                                 IF exists THEN "none" ELSE "inserted")
             /\ UNCHANGED <<adds, BOOKING_URL, votes, imp>>

\* how many add-slot requests are in flight at the same time
MaxAdders == 2

\* a worker with no add-slot request in flight
AddIdle == [pc |-> "idle", day |-> <<>>, court |-> <<>>, slot |-> <<>>]

\* admin_availability_post() down to its SELECT, on worker p.  The SELECT
\* runs outside any transaction and reads the committed table; when it finds
\* no row the request goes on to its INSERT, and other requests can run in
\* between.
AdminPostSelect(p, form_day, form_court, form_slot) ==
    LET day == Strip(OrEmpty(form_day))
        court == Strip(OrEmpty(form_court))
        slot == Strip(OrEmpty(form_slot))
        exists == <<day, court, slot>> \in BagToSet(avail)
    IN  /\ adds[p].pc = "idle"
        /\ IF ~InList(day, DAYS) \/ ~InList(court, ALL_COURTS) \/ slot = <<>>
           THEN /\ last' = Redirect("admin_availability_post", "/admin/availability",
                       "Please choose a valid day, court, and slot.", "none")
                /\ UNCHANGED <<votes, avail, imp, adds, BOOKING_URL>>
           ELSE IF exists
           THEN /\ last' = Redirect("admin_availability_post", "/admin/availability",
                                    "Time slot added.", "none")
                /\ UNCHANGED <<votes, avail, imp, adds, BOOKING_URL>>
           ELSE /\ adds' = [adds EXCEPT ![p] = [pc |-> "insert", day |-> day,
                                                 court |-> court, slot |-> slot]]
                /\ UNCHANGED <<votes, avail, imp, last, BOOKING_URL>>

\* admin_availability_post() from its INSERT on: the row is inserted whatever
\* the table holds by now (the table has no unique constraint), committed,
\* and the request answers.
AdminPostInsert(p) ==
    /\ adds[p].pc = "insert"
    /\ ~WriteLocked
    /\ avail' = InsertSlot(avail, adds[p].day, adds[p].court, adds[p].slot)
    /\ last' = Redirect("admin_availability_post", "/admin/availability",
                        "Time slot added.", "inserted")
    /\ adds' = [adds EXCEPT ![p] = AddIdle]
    /\ UNCHANGED <<votes, imp, BOOKING_URL>>

\* clear_all_availability(): DELETE FROM availability
clear_all_availability(table) == EmptyBag

\* admin_availability_clear(), POST /admin/availability/clear
AdminAvailabilityClear(form_pin) ==
    IF PinRejected(form_pin)
    THEN /\ last' = Redirect("admin_availability_clear", "/admin/availability",
                             "Invalid PIN.", "none")
         /\ UNCHANGED <<adds, BOOKING_URL, votes, avail, imp>>
    ELSE /\ ~WriteLocked
         /\ avail' = clear_all_availability(avail)
         /\ last' = Redirect("admin_availability_clear", "/admin/availability",
                             "All availability cleared.", "deleted")
         /\ UNCHANGED <<adds, BOOKING_URL, votes, imp>>

(***************************************************************************)
(* The booking hand-off                                                    *)
(***************************************************************************)
\* the separator chosen as if no base URL had a query string
sep_AlwaysQuestionMark(base) == <<"?">>

\* sep = "&" if "?" in BOOKING_URL else "?"
sep(base) == IF Contains(base, <<"?">>) THEN <<"&">> ELSE <<"?">>

\* f"{BOOKING_URL}{sep}day={day}&court={court}"
target(base, day, court) ==
    base \o sep(base) \o <<"d","a","y","=">> \o day
         \o <<"&","c","o","u","r","t","=">> \o court

\* book_court(), POST /book: no SQL statement, no test of the tally
Book(form_day, form_court) ==
    LET day == Strip(OrEmpty(form_day))
        court == Strip(OrEmpty(form_court))
    IN  /\ IF ~InList(day, DAYS) \/ ~InList(court, ALL_COURTS)
           THEN last' = Redirect("book_court", "/results",
                                 "Invalid booking selection.", "none")
           ELSE last' = [Redirect("book_court", "", "", "none")
                            EXCEPT !.url = target(BOOKING_URL, day, court)]
        /\ UNCHANGED <<votes, avail, imp, adds, BOOKING_URL>>

(***************************************************************************)
(* The import                                                              *)
(***************************************************************************)
\* JSON values, tagged with their Python type
JNull == [t |-> "null", v |-> <<>>]

JStr(s) == [t |-> "str", v |-> s]

JList(xs) == [t |-> "list", v |-> xs]

\* a JSON object: its <<key, value>> pairs in order, the keys distinct
JDict(items) == [t |-> "dict", v |-> items]

\* Python's truth value of a JSON value
Truthy(j) == j.t # "null" /\ j.v # <<>>

\* a dict as the sequence of its <<key, value>> pairs in insertion order
DictHas(d, k) == \E i \in 1..Len(d) : d[i][1] = k

\* d[k] = v
DictSet(d, k, v) ==
    IF DictHas(d, k)
    THEN [d EXCEPT ![CHOOSE i \in 1..Len(d) : d[i][1] = k] = <<k, v>>]
    ELSE Append(d, <<k, v>>)

\* next((L for L in ALL_COURTS if L.lower() in (k or "").lower()), None)
MatchLabel(k) ==
    LET hits == {i \in 1..Len(ALL_COURTS) : Contains(Lower(k), Lower(ALL_COURTS[i]))}
    IN  IF hits = {} THEN None
        ELSE ALL_COURTS[CHOOSE i \in hits : \A j \in hits : i <= j]

\* (s or "").strip() raises on a value that is true and no string
SlotRaises(s) == Truthy(s) /\ s.t # "str"

\* the slots loop of ingest_availability
RECURSIVE CleanSlots(_)
CleanSlots(v) ==
    IF v = <<>> THEN <<>>
    ELSE LET slots == CleanSlots(SubSeq(v, 1, Len(v) - 1))
             s == Strip(v[Len(v)].v)
         IN  IF s # <<>> /\ ~InList(s, slots) THEN Append(slots, s) ELSE slots

\* the loop over mapping.items(): the clean dict, and whether the loop raised
RECURSIVE CleanMapping(_)
CleanMapping(items) ==
    IF items = <<>> THEN [raised |-> FALSE, clean |-> <<>>]
    ELSE LET sofar == CleanMapping(SubSeq(items, 1, Len(items) - 1))
             k == items[Len(items)][1]
             v == items[Len(items)][2]
             label == MatchLabel(k)
         IN  IF sofar.raised \/ v.t # "list" \/ label = None THEN sofar
             ELSE IF \E i \in 1..Len(v.v) : SlotRaises(v.v[i])
             THEN [raised |-> TRUE, clean |-> sofar.clean]
             ELSE [raised |-> FALSE,
                   clean |-> DictSet(sofar.clean, label, CleanSlots(v.v))]

\* the rows bulk_upsert_availability inserts, in order
RECURSIVE InsertList(_)
InsertList(mapping) ==
    IF mapping = <<>> THEN <<>>
    ELSE LET court == mapping[1][1]
             slots == mapping[1][2]
             rows == IF InList(court, ALL_COURTS)
                     THEN [i \in 1..Len(slots) |-> <<court, slots[i]>>]
                     ELSE <<>>
         IN  SelectSeq(rows, LAMBDA r : r[2] # <<>>) \o InsertList(Tail(mapping))

\* ingest_availability(), POST /ingest/availability, up to its first read of
\* the table.  data is the JSON body, with JNull for a key it does not hold.
IngestStart(data) ==
    /\ imp.pc = "idle"
    /\ IF Truthy(data.day) /\ data.day.t # "str"
       THEN \* .strip() raises
            /\ last' = JsonError("ingest_availability", 500, "exception")
            /\ UNCHANGED <<adds, BOOKING_URL, votes, avail, imp>>
       ELSE LET day == Strip(data.day.v)
                mapping == IF Truthy(data.mapping) THEN data.mapping ELSE JDict(<<>>)
                cleaned == CleanMapping(mapping.v)
            IN  IF ~InList(day, DAYS)
                THEN /\ last' = JsonError("ingest_availability", 400, "Invalid day")
                     /\ UNCHANGED <<adds, BOOKING_URL, votes, avail, imp>>
                ELSE IF mapping.t # "dict" \/ cleaned.raised
                THEN \* .items() or .strip() raises
                     /\ last' = JsonError("ingest_availability", 500, "exception")
                     /\ UNCHANGED <<adds, BOOKING_URL, votes, avail, imp>>
                ELSE /\ imp' = [pc |-> "cleaned", day |-> day, clean |-> cleaned.clean,
                                before |-> get_availability_times(avail)[day],
                                txn |-> EmptyBag, todo |-> <<>>]
                     /\ UNCHANGED <<adds, BOOKING_URL, votes, avail, last>>

\* the DELETE committed on its own (a connection in autocommit mode)
BulkDelete_Autocommit ==
    /\ imp.pc = "cleaned"
    /\ avail' = DeleteDay(avail, imp.day)
    /\ imp' = [imp EXCEPT !.pc = "txn",
                          !.txn = DeleteDay(avail, imp.day),
                          !.todo = InsertList(imp.clean)]
    /\ UNCHANGED <<adds, BOOKING_URL, votes, last>>

\* bulk_upsert_availability: the DELETE opens the transaction
BulkDelete ==
    /\ imp.pc = "cleaned"
    /\ imp' = [imp EXCEPT !.pc = "txn",
                          !.txn = DeleteDay(avail, imp.day),
                          !.todo = InsertList(imp.clean)]
    /\ UNCHANGED <<adds, BOOKING_URL, votes, avail, last>>

\* bulk_upsert_availability: one INSERT
BulkInsert ==
    /\ imp.pc = "txn"
    /\ imp.todo # <<>>
    /\ imp' = [imp EXCEPT !.txn = InsertSlot(imp.txn, imp.day, imp.todo[1][1],
                                             imp.todo[1][2]),
                          !.todo = Tail(imp.todo)]
    /\ UNCHANGED <<adds, BOOKING_URL, votes, avail, last>>

\* bulk_upsert_availability: conn.commit()
BulkCommit ==
    /\ imp.pc = "txn"
    /\ imp.todo = <<>>
    /\ avail' = imp.txn
    /\ imp' = [imp EXCEPT !.pc = "committed", !.txn = EmptyBag]
    /\ UNCHANGED <<adds, BOOKING_URL, votes, last>>

\* sum(len(v) for v in after.values())
RECURSIVE SumLen(_, _)
SumLen(after, courts) ==
    IF courts = {} THEN 0
    ELSE LET c == CHOOSE x \in courts : TRUE
         IN  Len(after[c]) + SumLen(after, courts \ {c})

\* ingest_availability: the second read and the response
IngestRespond ==
    /\ imp.pc = "committed"
    /\ LET after == get_availability_times(avail)[imp.day]
       IN  last' = [Response("ingest_availability", 200, "", "", "none")
                        EXCEPT !.ok = TRUE,
                               !.imported = SumLen(after, DOMAIN after),
                               !.courts = Cardinality({c \in DOMAIN after :
                                                          after[c] # <<>>})]
    /\ imp' = Idle
    /\ UNCHANGED <<adds, BOOKING_URL, votes, avail>>

(***************************************************************************)
(* Requests                                                                *)
(***************************************************************************)
\* how many voters of VoterPool submit votes
MaxVoters == 5

VoterPool ==
    <<<<"S","a","m">>, <<"s","a","m">>, <<"A","l">>, <<"B","o">>, <<"C","y">>,
      <<"D","i">>, <<"E","d">>>>

Padded(s) == <<" ">> \o s \o <<" ", "\t">>

Monday == <<"M","o","n","d","a","y">>

Gym == <<"G","y","m">>

Slot9 == <<"9","-","1","0">>

Slot8 == <<"8","-","9">>

VoteForm(name, day, court) == [name |-> name, day |-> day, court |-> court]

\* forms the validation of home() rejects: a missing or blank name, a day or
\* a court that is not listed (the day is not stripped), a missing day
BadVoteForms ==
    { VoteForm(None, Saturday, CourtN("1")),
      VoteForm(<<" ", "\t">>, Sunday, CourtN("1")),
      VoteForm(VoterPool[1], Padded(Saturday), CourtN("1")),
      VoteForm(VoterPool[1], Monday, CourtN("1")),
      VoteForm(VoterPool[1], None, CourtN("1")),
      VoteForm(VoterPool[1], Sunday, CourtN("9")),
      VoteForm(VoterPool[1], Sunday, None) }

\* the votes of the first MaxVoters voters of VoterPool: the first voter
\* votes for either day, with or without spaces around the name
VoteForms ==
    { VoteForm(VoterPool[1], Saturday, CourtN("1")),
      VoteForm(VoterPool[1], Sunday, CourtN("5")),
      VoteForm(Padded(VoterPool[1]), Sunday, CourtN("5")) }
    \cup { VoteForm(VoterPool[i], Saturday, CourtN("1")) : i \in 2..MaxVoters }
    \cup BadVoteForms

\* the votes of two voters whose names differ in case
FewVoteForms ==
    { VoteForm(Padded(VoterPool[1]), Saturday, CourtN("1")),
      VoteForm(Padded(VoterPool[1]), Sunday, CourtN("5")),
      VoteForm(Lower(VoterPool[1]), Saturday, CourtN("1")) }
    \cup BadVoteForms

PinFields == {None, RESET_PIN, <<"1","2","3">>, Padded(RESET_PIN)}

SlotForm(day, court, slot) == [day |-> day, court |-> court, slot |-> slot]

SlotForms ==
    { SlotForm(Padded(Saturday), Padded(CourtN("1")), Padded(Slot9)),
      SlotForm(Sunday, CourtN("1"), Slot9),
      SlotForm(Monday, CourtN("1"), Slot9),
      SlotForm(None, CourtN("1"), Slot9),
      SlotForm(Sunday, Gym, Slot9),
      SlotForm(Sunday, CourtN("1"), <<" ">>),
      SlotForm(Sunday, CourtN("1"), None) }

\* JSON bodies posted to /ingest/availability
Payloads ==
    { [day |-> JStr(Padded(Saturday)),
       mapping |-> JDict(<< <<Lower(CourtN("1")) \o <<"0">>,
                              JList(<<JStr(Padded(Slot9)), JStr(Slot9), JNull,
                                      JStr(Slot8)>>)>>,
                            <<Gym, JList(<<JStr(Slot8)>>)>>,
                            <<Other, JStr(Slot8)>> >>)],
      [day |-> JStr(Sunday),
       mapping |-> JDict(<< <<CourtN("1"), JList(<<JStr(Slot8)>>)>>,
                            <<CourtN("1") \o <<" ","B">>, JList(<<>>)>> >>)],
      [day |-> JStr(Saturday), mapping |-> JNull],
      [day |-> JStr(Monday),
       mapping |-> JDict(<< <<CourtN("1"), JList(<<JStr(Slot8)>>)>> >>)],
      [day |-> JNull, mapping |-> JList(<<JStr(Slot8)>>)],
      [day |-> JStr(Sunday),
       mapping |-> JDict(<< <<CourtN("1"), JList(<<JList(<<JStr(Slot8)>>)>>)>> >>)],
      [day |-> JList(<<JStr(Sunday)>>), mapping |-> JNull] }

(***************************************************************************)
(* Specifications                                                          *)
(***************************************************************************)
\* init_db() on an empty data.db
Init ==
    /\ votes = <<>>
    /\ avail = EmptyBag
    /\ imp = Idle
    /\ last = NoResponse
    /\ adds = [p \in 1..MaxAdders |-> AddIdle]
    /\ BOOKING_URL = DefaultBookingUrl

\* every handler that writes, with few voters
Next ==
    \/ \E f \in FewVoteForms : HomePost(f.name, f.day, f.court)
    \/ \E p \in PinFields : ConfirmReset(p)
    \/ AdminAvailability
    \/ \E f \in SlotForms : AdminAvailabilityPost(f.day, f.court, f.slot)
    \/ \E p \in PinFields : AdminAvailabilityClear(p)
    \/ \E data \in Payloads : IngestStart(data)
    \/ BulkDelete
    \/ BulkInsert
    \/ BulkCommit
    \/ IngestRespond

Spec == Init /\ [][Next]_vars

\* the vote handlers alone, with MaxVoters voters
NextVotes ==
    \/ \E f \in VoteForms : HomePost(f.name, f.day, f.court)
    \/ \E p \in PinFields : ConfirmReset(p)

SpecVotes == Init /\ [][NextVotes]_vars

\* add-slot forms of requests in flight together: the same triple twice (once
\* padded), another triple, a day that is not listed
RaceSlotForms ==
    { SlotForm(Sunday, CourtN("1"), Slot8),
      SlotForm(Padded(Sunday), CourtN("1"), Padded(Slot8)),
      SlotForm(Saturday, CourtN("1"), Slot9),
      SlotForm(Monday, CourtN("1"), Slot9) }

\* the JSON bodies with a listed day and an object as mapping
RacePayloads ==
    {d \in Payloads : /\ d.day.t = "str"
                      /\ InList(Strip(d.day.v), DAYS)
                      /\ d.mapping.t = "dict"}

\* the handlers that write the availability table, the add-slot requests
\* interleaved statement by statement on MaxAdders workers
NextRace ==
    \/ \E p \in 1..MaxAdders : \E f \in RaceSlotForms :
          AdminPostSelect(p, f.day, f.court, f.slot)
    \/ \E p \in 1..MaxAdders : AdminPostInsert(p)
    \/ \E p \in PinFields : AdminAvailabilityClear(p)
    \/ \E data \in RacePayloads : IngestStart(data)
    \/ BulkDelete
    \/ BulkInsert
    \/ BulkCommit
    \/ IngestRespond

SpecRace == Init /\ [][NextRace]_vars

\* day and court fields posted to /book: the hidden fields of the results
\* page, padded values, values that are not listed, missing fields
BookForm(day, court) == [day |-> day, court |-> court]

BookForms ==
    { BookForm(Saturday, CourtN("1")),
      BookForm(Padded(Sunday), Padded(OutdoorN("A"))),
      BookForm(Monday, CourtN("1")),
      BookForm(Lower(Saturday), CourtN("1")),
      BookForm(Sunday, Gym),
      BookForm(None, CourtN("1")),
      BookForm(Sunday, None) }

\* values of the BOOKING_URL environment variable: unset, and a URL that has
\* a query string
BookingUrls ==
    { DefaultBookingUrl,
      DefaultBookingUrl \o <<"?","p","a","r","a","m","=","1">> }

\* the application started with either booking URL
InitBook ==
    /\ votes = <<>>
    /\ avail = EmptyBag
    /\ imp = Idle
    /\ last = NoResponse
    /\ adds = [p \in 1..MaxAdders |-> AddIdle]
    /\ BOOKING_URL \in BookingUrls

\* the vote handlers and the booking hand-off
NextBook ==
    \/ \E f \in VoteForms : HomePost(f.name, f.day, f.court)
    \/ \E p \in PinFields : ConfirmReset(p)
    \/ \E f \in BookForms : Book(f.day, f.court)

SpecBook == InitBook /\ [][NextBook]_vars

\* how many rows the votes table of SpecTally holds at most
MaxRows == 3

TallyDays == {Saturday, Sunday}

TallyCourts == {CourtN("1"), CourtN("2"), CourtN("5"), OutdoorN("A")}

\* the contents of the votes table with n rows, one per voter
RECURSIVE Tables(_)
Tables(n) ==
    IF n = 0 THEN {<<>>}
    ELSE {Append(t, VoteForm(VoterPool[n], d, c)) :
            t \in Tables(n - 1), d \in TallyDays, c \in TallyCourts}

\* tally_with_names() as a function of the table: any table of at most
\* MaxRows valid votes
InitTally ==
    /\ votes \in UNION {Tables(n) : n \in 0..MaxRows}
    /\ avail = EmptyBag
    /\ imp = Idle
    /\ last = NoResponse
    /\ adds = [p \in 1..MaxAdders |-> AddIdle]
    /\ BOOKING_URL = DefaultBookingUrl

NextTally == Results

SpecTally == InitTally /\ [][NextTally]_vars

(***************************************************************************)
(* Properties                                                              *)
(***************************************************************************)
\* a voter name trimmed and lower-cased
Normalized(name) == Lower(Strip(name))

\* the distinct voters of the votes table
DistinctVoters == {Normalized(votes[i].name) : i \in 1..Len(votes)}

\* the rows of the votes table in another order
Reordered(f) == [i \in 1..Len(votes) |-> votes[f[i]]]

\* C1: the vote store holds at most one vote per normalized (trimmed,
\* lower-cased) voter name.
C1_OneVotePerNormalizedName ==
    \A i, j \in 1..Len(votes) :
        Normalized(votes[i].name) = Normalized(votes[j].name) => i = j

\* C3: total_players of tally_with_names is the number of distinct names after
\* trimming and lower-casing, whatever the number of submissions.
C3_TotalPlayersIsDistinctNames ==
    tally_with_names(votes).total_players = Cardinality(DistinctVoters)

\* C3's case: two stored names that differ only in case, among other voters,
\* after a voter voted again.
C3_Witness ==
    /\ last.handler = "home" /\ last.did = "updated"
    /\ Len(votes) >= 3
    /\ Cardinality(DistinctVoters) < Len(votes)
    /\ tally_with_names(votes).total_players = Len(votes) - 1

\* the sort position of an entry of counts, read off the entry
RankOf(e) == <<pref_rank(e.court), day_rank(e.day)>>

Preferred(court) == court \in Range(PREFERRED_COURTS)

\* C4: the ranked list is ordered by a strict total order: no two buckets
\* compare equal, so the list and the top choice are the same for every order
\* of the rows, and a bucket with more votes comes before one with fewer.
C4_RankingStrictTotalOrder ==
    last.handler = "results" =>
        LET counts == last.summary.counts
        IN  /\ \A i, j \in 1..Len(counts) :
                  /\ i # j =>
                        \/ counts[i].votes # counts[j].votes
                        \/ RankOf(counts[i]) # RankOf(counts[j])
                  /\ counts[i].votes > counts[j].votes => i < j
            /\ \A f \in Permutations(1..Len(votes)) :
                  /\ tally_with_names(Reordered(f)).counts = counts
                  /\ tally_with_names(Reordered(f)).top_choice = last.summary.top_choice

\* C4's case: a bucket with more votes and a worse court and day comes first.
C4_Witness ==
    /\ last.handler = "results"
    /\ Len(last.summary.counts) = 2
    /\ last.summary.counts[1].votes > last.summary.counts[2].votes
    /\ ~Preferred(last.summary.counts[1].court)
    /\ last.summary.counts[1].day = Sunday
    /\ Preferred(last.summary.counts[2].court)
    /\ last.summary.counts[2].day = Saturday

\* C5: of two buckets with equal votes, one for a preferred court and one
\* not, the preferred-court bucket comes first, whatever the days.
C5_PreferredOutranks ==
    last.handler = "results" =>
        LET counts == last.summary.counts
        IN  \A i, j \in 1..Len(counts) :
                /\ counts[i].votes = counts[j].votes
                /\ Preferred(counts[i].court)
                /\ ~Preferred(counts[j].court)
                => i < j

\* C5's case: a preferred court on Sunday ahead of another court on Saturday
\* with the same votes.
C5_Witness ==
    /\ last.handler = "results"
    /\ \E i, j \in 1..Len(last.summary.counts) :
          /\ i < j
          /\ last.summary.counts[i].votes = last.summary.counts[j].votes
          /\ Preferred(last.summary.counts[i].court)
          /\ last.summary.counts[i].day = Sunday
          /\ ~Preferred(last.summary.counts[j].court)
          /\ last.summary.counts[j].day = Saturday

C7_QuorumAtFour ==
    LET s == tally_with_names(votes)
        n == Cardinality(DistinctVoters)
    IN  /\ s.booking_possible <=> n >= 4
        /\ n \in 0..3 => ~s.booking_possible
        /\ votes = <<>> => s.top_choice = NoChoice /\ s.total_players = 0

\* C7's case: the fourth distinct voter has just been stored, next to a name
\* that differs from another only in case.
C7_Witness ==
    /\ last.handler = "home" /\ last.did = "inserted"
    /\ Len(votes) = 5
    /\ Cardinality(DistinctVoters) = 4
    /\ Normalized(votes[5].name) \notin {Normalized(votes[i].name) : i \in 1..4}
    /\ tally_with_names(votes).booking_possible

\* a form's name, day and court are all valid
ValidVote(f) ==
    /\ Strip(OrEmpty(f.name)) # <<>>
    /\ f.day \in Range(DAYS)
    /\ f.court \in Range(ALL_COURTS)

\* the places of the stored votes under a name
VotesOf(rows, name) == {i \in 1..Len(rows) : rows[i].name = name}

\* C2: a valid vote under a name that has a stored vote replaces that voter's
\* (day, court) and adds no entry: the number of votes, every other voter's
\* vote and the availability store are unchanged, and the store holds one
\* entry for the name, with the pair submitted last.
C2_ResubmitReplaces ==
    [][\A f \in FewVoteForms :
          LET name == Strip(OrEmpty(f.name))
          IN  /\ ValidVote(f)
              /\ VotesOf(votes, name) # {}
              /\ last'.handler = "home"
              /\ HomePost(f.name, f.day, f.court)
              => /\ Len(votes') = Len(votes)
                 /\ \A i \in 1..Len(votes) :
                       votes[i].name # name => votes'[i] = votes[i]
                 /\ Cardinality(VotesOf(votes', name)) = 1
                 /\ \A i \in VotesOf(votes', name) :
                       votes'[i].day = f.day /\ votes'[i].court = f.court
                 /\ avail' = avail]_vars

\* C2's case: a voter's vote was replaced by another pair while another voter
\* and an availability entry are stored.
C2_Witness ==
    /\ last.handler = "home" /\ last.did = "updated"
    /\ Len(votes) = 2
    /\ votes[1].day = Sunday /\ votes[1].court = CourtN("5")
    /\ avail # EmptyBag

\* a submitted PIN that is not the configured one, or none
WrongPin(p) == p = None \/ p # RESET_PIN

\* C8: confirm-reset and availability clear with a PIN that is not RESET_PIN
\* (or without one) leave both stores as they were; with the PIN, confirm-reset
\* empties the votes only and availability clear the availability only.
C8_PinGate ==
    [][\A p \in PinFields :
          /\ last'.handler = "confirm_reset" /\ ConfirmReset(p) =>
                /\ avail' = avail
                /\ votes' = IF WrongPin(p) THEN votes ELSE <<>>
          /\ last'.handler = "admin_availability_clear" /\ AdminAvailabilityClear(p) =>
                /\ votes' = votes
                /\ avail' = IF WrongPin(p) THEN avail ELSE EmptyBag]_vars

\* C8's case: a reset without the PIN was refused while both stores hold
\* entries.
C8_Witness ==
    /\ last.handler = "confirm_reset" /\ last.flash = "Invalid PIN."
    /\ votes # <<>>
    /\ avail # EmptyBag

\* an add-slot form with an invalid day, an invalid court or an empty slot
InvalidSlotForm(f) ==
    \/ Strip(OrEmpty(f.day)) \notin Range(DAYS)
    \/ Strip(OrEmpty(f.court)) \notin Range(ALL_COURTS)
    \/ Strip(OrEmpty(f.slot)) = <<>>

\* an import whose day is none of the enumerated days
InvalidImportDay(data) ==
    data.day.t # "str" \/ Strip(data.day.v) \notin Range(DAYS)

\* C9: a request rejected by input validation changes neither store: a vote
\* with an empty name or an unlisted day or court, an add-slot with an invalid
\* day or court or an empty slot, and an import with an unlisted day, which
\* answers with an error status and starts no deletion or insertion.
C9_RejectedChangesNothing ==
    [][/\ \A f \in FewVoteForms :
             /\ ~ValidVote(f)
             /\ last'.handler = "home"
             /\ HomePost(f.name, f.day, f.court)
             => votes' = votes /\ avail' = avail
       /\ \A f \in SlotForms :
             /\ InvalidSlotForm(f)
             /\ last'.handler = "admin_availability_post"
             /\ AdminAvailabilityPost(f.day, f.court, f.slot)
             => votes' = votes /\ avail' = avail
       /\ \A data \in Payloads :
             /\ InvalidImportDay(data)
             /\ imp.pc = "idle"
             /\ last'.handler = "ingest_availability"
             /\ IngestStart(data)
             => /\ votes' = votes /\ avail' = avail
                /\ imp' = Idle
                /\ last'.code >= 400 /\ ~last'.ok]_vars

\* C9's case: an import with an unlisted day was refused while both stores
\* hold entries.
C9_Witness ==
    /\ last.handler = "ingest_availability" /\ last.code = 400
    /\ votes # <<>>
    /\ avail # EmptyBag

\* the availability rows of one day, and of the other days
RowsOfDay(table, day) ==
    LET keep == {t \in BagToSet(table) : t[1] = day}
    IN  [t \in keep |-> table[t]]

RowsOfOtherDays(table, day) ==
    LET keep == {t \in BagToSet(table) : t[1] # day}
    IN  [t \in keep |-> table[t]]

\* the (day, court, slot) rows of a cleaned payload
CleanRows(day, clean) ==
    UNION {{<<day, clean[i][1], clean[i][2][j]>> : j \in 1..Len(clean[i][2])} :
             i \in 1..Len(clean)}

\* every court of the cleaned payload is an enumerated label that an incoming
\* name holds, and every slot is a trimmed slot of the payload
CleanedFrom(clean, data) ==
    \A i \in 1..Len(clean) :
        /\ clean[i][1] \in Range(ALL_COURTS)
        /\ \E k \in 1..Len(data.mapping.v) :
              /\ Contains(Lower(data.mapping.v[k][1]), Lower(clean[i][1]))
              /\ \A j \in 1..Len(clean[i][2]) :
                    \E x \in 1..Len(data.mapping.v[k][2].v) :
                        /\ data.mapping.v[k][2].v[x].t = "str"
                        /\ Strip(data.mapping.v[k][2].v[x].v) = clean[i][2][j]

\* C10: an import for a day replaces that day's availability in one step: the
\* commit leaves for the day exactly the rows of the cleaned payload and the
\* other day's rows as they were, and from the DELETE to the commit no step
\* changes what a read of the availability returns.
C10_ImportReplacesDayAtomically ==
    [][/\ BulkCommit =>
             /\ RowsOfDay(avail', imp.day) = SetToBag(CleanRows(imp.day, imp.clean))
             /\ RowsOfOtherDays(avail', imp.day) = RowsOfOtherDays(avail, imp.day)
       /\ BulkDelete \/ BulkInsert => avail' = avail
       /\ imp.pc = "txn" /\ ~BulkCommit =>
             \/ avail' = avail
             \/ get_availability_times(avail') = get_availability_times(avail)
       /\ \A data \in Payloads :
             imp.pc = "idle" /\ imp'.pc = "cleaned" /\ IngestStart(data)
             => CleanedFrom(imp'.clean, data)]_vars

\* C10's case: an import has replaced a day's rows by other rows and left the
\* other day's rows; the last read of the availability, made before the
\* commit, showed the day's old rows.
C10_Witness ==
    /\ imp.pc = "committed"
    /\ RowsOfDay(avail, imp.day) # EmptyBag
    /\ RowsOfOtherDays(avail, imp.day) # EmptyBag
    /\ last.handler = "admin_availability"
    /\ last.data[imp.day] = imp.before
    /\ imp.before # NoSlots
    /\ get_availability_times(avail)[imp.day] # imp.before

\* C11: under any interleaving of add-slot requests, imports and clears the
\* availability table holds no (day, court, slot) triple more than once; two
\* add-slot requests for one triple running together leave a single copy.
C11_NoDuplicateSlots ==
    \A t \in BagToSet(avail) : CopiesIn(t, avail) = 1

\* the query string the hand-off appends, after the separator
DayCourtQuery(day, court) ==
    <<"d","a","y","=">> \o day \o <<"&","c","o","u","r","t","=">> \o court

\* the response redirects to a URL outside the application
HandsOff(resp) == resp.handler = "book_court" /\ resp.code = 302 /\ resp.url # <<>>

C13_HandOffNeedsQuorum ==
    [][ \A f \in BookForms :
           (Book(f.day, f.court) /\ HandsOff(last')) =>
              /\ Cardinality(DistinctVoters) >= QuorumSize
              /\ tally_with_names(votes).booking_possible
      ]_vars

\* the sum of the vote counts of the entries of counts
RECURSIVE SumVotes(_)
SumVotes(counts) ==
    IF counts = <<>> THEN 0
    ELSE counts[Len(counts)].votes + SumVotes(SubSeq(counts, 1, Len(counts) - 1))

\* C14: every stored vote has a non-empty trimmed name, a listed day and a
\* listed court; so the tally applies pref_rank to listed courts only, skips
\* no stored vote (each is counted and named in the bucket of its day and
\* court) and the vote counts of the buckets add up to the number of stored
\* votes.
C14_StoredVotesValid ==
    /\ \A i \in 1..Len(votes) :
          /\ votes[i].name # <<>>
          /\ Strip(votes[i].name) = votes[i].name
          /\ votes[i].day \in Range(DAYS)
          /\ votes[i].court \in Range(ALL_COURTS)
    /\ LET s == tally_with_names(votes)
       IN  /\ \A k \in 1..Len(s.counts) : s.counts[k].court \in Range(ALL_COURTS)
           /\ \A i \in 1..Len(votes) :
                 \E k \in 1..Len(s.counts) :
                    /\ s.counts[k].day = votes[i].day
                    /\ s.counts[k].court = votes[i].court
                    /\ votes[i].name \in Range(s.counts[k].names)
           /\ \A k \in 1..Len(s.counts) :
                 s.counts[k].votes = Len(s.counts[k].names)
           /\ SumVotes(s.counts) = Len(votes)

\* C14's case: four votes or more are stored in two buckets or more, and the
\* last request was a vote that the validation rejected.
C14_Witness ==
    /\ last.handler = "home" /\ last.did = "none"
    /\ Len(votes) >= 4
    /\ Len(tally_with_names(votes).counts) >= 2
    /\ SumVotes(tally_with_names(votes).counts) = Len(votes)

====
